---- MODULE Spec2Model ----
(***************************************************************************)
(* Money-mate-bot: a Telegram bot that keeps a registry of                 *)
(* (user_id, sheet_id) rows in a master Google Sheet, appends transaction  *)
(* rows to month-named sheets of the user's spreadsheet, and classifies    *)
(* free text with an inference endpoint.                                   *)
(*                                                                         *)
(* Scheduling.  The handlers of bot_handlers.py are coroutines on one      *)
(* asyncio event loop.  get_user_sheet_id, add_user_to_master_sheet,       *)
(* append_expense_to_sheet, get_all_expenses_for_analysis,                 *)
(* analyze_expense_message and generate_expense_report are plain blocking  *)
(* functions called without await, so a handler can be suspended only at   *)
(* its `await update.message.reply_*` lines.  Every action below is        *)
(* therefore the code of one handler between two awaits; handlers          *)
(* interleave at the awaits and nowhere else.                              *)
(*                                                                         *)
(* Backend.  Every request to the Sheets backend either succeeds or is     *)
(* rejected with an HTTP status (the code has an except branch for each);  *)
(* a rejected request changes nothing.  Cells hold the strings written.    *)
(***************************************************************************)
EXTENDS Integers, Sequences, FiniteSets, TLC

VARIABLES
    registry,      \* the master sheet's rows (columns A:B)
    spreadsheets,  \* sheet id -> the user spreadsheet's sheets
    clock,         \* index of the current month in MonthTitles
    tasks,         \* handler slot -> the handler run in it
    nmsgs,         \* updates received so far
    lastWrite,     \* user -> sheet id of the last accepted registry write
    written,       \* sheet id -> log of the appends that returned True
    hist, ncalls,  \* direct callers: the last two calls, the call count
    response, result, \* the endpoint's answer and the classifier's result
    scanned        \* direct callers: the last call, when it was a scan

storeVars == <<spreadsheets, clock, written>>
botVars == <<tasks, nmsgs, lastWrite>>
callVars == <<hist, ncalls, response, result, scanned>>
vars == <<registry, storeVars, botVars, callVars>>

\* ------------------------------------------------------------------ bounds
MaxLen == 2
MaxCalls == 2
MaxAppends == 3
MaxMessages == 2

\* ---------------------------------------------------------------- universe
Users == {"u1", "u2"}
SheetIds == {"s1", "s2"}
None == "<None>"
\* For the registry functions every rejection is alike (one except branch).
Answers == {"ok", "500"}
\* The answers the handlers are run on: accepted, rejected for lack of
\* permission (403), rejected because the backend is unavailable (500).
RegistryAnswers == {"ok", "403", "500"}
\* The answers to a request: one is drawn only for a request that is made.
RequestAnswers(made) == IF made THEN RegistryAnswers ELSE {"ok"}

\* The rows a master sheet can hold in columns A:B: an empty row, a row with
\* only column A, a full row, a row whose column A is empty.
RegistryRows ==
    {<<>>} \cup {<<u>> : u \in Users}
           \cup {<<u, s>> : u \in Users, s \in SheetIds}
           \cup {<<"", s>> : s \in SheetIds}

RECURSIVE TablesUpTo(_)
TablesUpTo(n) ==
    IF n = 0 THEN {<<>>}
    ELSE LET shorter == TablesUpTo(n - 1)
         IN  shorter \cup {Append(t, r) : t \in {x \in shorter : Len(x) = n - 1},
                                         r \in RegistryRows}

\* No call of the registry functions made yet.
NoCall == [op |-> "none", u |-> "", s |-> "", rd |-> "ok", res |-> "",
           wrote |-> FALSE, changed |-> FALSE]

\* ------------------------------------------------------- spreadsheet backend
\* A variant whose range is one row too low (i + 1 taken as 0-based again).
ValuesUpdateNextRow(values, i, row) ==
    IF i + 1 > Len(values) THEN Append(values, row)
    ELSE [k \in 1..Len(values) |-> IF k = i + 1 THEN row ELSE values[k]]

\* A variant whose body holds the sheet id alone.
ValuesUpdateSheetOnly(values, i, row) ==
    [k \in 1..Len(values) |-> IF k = i THEN <<row[2]>> ELSE values[k]]

\* values().update of the range A<i>:B<i> with one row.
ValuesUpdate(values, i, row) ==
    [k \in 1..Len(values) |-> IF k = i THEN row ELSE values[k]]

\* values().append at A1 with INSERT_ROWS: the row goes after the table.
ValuesAppend(values, row) == Append(values, row)

\* ------------------------------------------------------------------ registry
\* A variant that does not compare column A with user_id.
get_user_sheet_id_any_user(values, user_id) ==
    LET hits == {i \in 1..Len(values) : Len(values[i]) >= 2}
    IN  IF hits = {} THEN None
        ELSE values[CHOOSE i \in hits : \A j \in hits : i <= j][2]

\* The first row with at least two columns whose column A is user_id.
get_user_sheet_id(values, user_id) ==
    LET hits == {i \in 1..Len(values) :
                    Len(values[i]) >= 2 /\ values[i][1] = user_id}
    IN  IF hits = {} THEN None
        ELSE values[CHOOSE i \in hits : \A j \in hits : i <= j][2]

\* user_row_index of add_user_to_master_sheet (0 for the code's -1).
FindUserRow(values, user_id) ==
    LET hits == {i \in 1..Len(values) :
                    Len(values[i]) >= 1 /\ values[i][1] = user_id}
    IN  IF hits = {} THEN 0
        ELSE CHOOSE i \in hits : \A j \in hits : i <= j

\* A variant that appends a new row whenever the stored sheet id differs.
add_user_always_append(values, user_id, sheet_id, rd, wr) ==
    IF rd # "ok" THEN [table |-> values, ret |-> FALSE, wrote |-> FALSE]
    ELSE IF get_user_sheet_id(values, user_id) = sheet_id
         THEN [table |-> values, ret |-> TRUE, wrote |-> FALSE]
    ELSE IF wr # "ok" THEN [table |-> values, ret |-> FALSE, wrote |-> FALSE]
    ELSE [table |-> ValuesAppend(values, <<user_id, sheet_id>>),
          ret |-> TRUE, wrote |-> TRUE]

\* A variant without the "same sheet id, no update needed" early return.
add_user_always_write(values, user_id, sheet_id, rd, wr) ==
    LET i == FindUserRow(values, user_id)
    IN  IF rd # "ok" \/ wr # "ok"
        THEN [table |-> values, ret |-> FALSE, wrote |-> FALSE]
        ELSE IF i # 0
        THEN [table |-> ValuesUpdate(values, i, <<user_id, sheet_id>>),
              ret |-> TRUE, wrote |-> TRUE]
        ELSE [table |-> ValuesAppend(values, <<user_id, sheet_id>>),
              ret |-> TRUE, wrote |-> TRUE]

\* add_user_to_master_sheet: rd and wr are the backend's answers to the read
\* and to the update/append; the result is the table afterwards, the value
\* returned and whether a write was accepted.
add_user_to_master_sheet(values, user_id, sheet_id, rd, wr) ==
    LET i == FindUserRow(values, user_id)
        existing_sheet_id == IF i # 0 /\ Len(values[i]) >= 2
                             THEN values[i][2] ELSE None
    IN  IF rd # "ok" THEN [table |-> values, ret |-> FALSE, wrote |-> FALSE]
        ELSE IF i # 0
        THEN IF existing_sheet_id = sheet_id
             THEN [table |-> values, ret |-> TRUE, wrote |-> FALSE]
             ELSE IF wr # "ok"
             THEN [table |-> values, ret |-> FALSE, wrote |-> FALSE]
             ELSE [table |-> ValuesUpdate(values, i, <<user_id, sheet_id>>),
                   ret |-> TRUE, wrote |-> TRUE]
        ELSE IF wr # "ok"
             THEN [table |-> values, ret |-> FALSE, wrote |-> FALSE]
             ELSE [table |-> ValuesAppend(values, <<user_id, sheet_id>>),
                   ret |-> TRUE, wrote |-> TRUE]

\* ---------------------------------------------------------------- classifier
\* JSON values as the parsed response holds them.
JNull == [t |-> "null", n |-> 0, s |-> "", b |-> FALSE]
JNum(x) == [t |-> "num", n |-> x, s |-> "", b |-> FALSE]
JStr(x) == [t |-> "str", n |-> 0, s |-> x, b |-> FALSE]
JBool(x) == [t |-> "bool", n |-> 0, s |-> "", b |-> x]

\* Python truth value of a JSON value.
Truthy(v) ==
    CASE v.t = "null" -> FALSE
      [] v.t = "bool" -> v.b
      [] v.t = "num" -> v.n # 0
      [] v.t = "str" -> v.s # ""

\* The strings of the model that float() accepts, with their values.
NumericStrings == {"12"}
StrValue(x) == IF x = "12" THEN 12 ELSE 0

\* float(v): [ok, val]; ValueError or TypeError is ok = FALSE.
ToFloat(v) ==
    CASE v.t = "num" -> [ok |-> TRUE, val |-> v.n]
      [] v.t = "bool" -> [ok |-> TRUE, val |-> IF v.b THEN 1 ELSE 0]
      [] v.t = "str" -> IF v.s \in NumericStrings
                        THEN [ok |-> TRUE, val |-> StrValue(v.s)]
                        ELSE [ok |-> FALSE, val |-> 0]
      [] v.t = "null" -> [ok |-> FALSE, val |-> 0]

\* The category list of the prompt and of the validation (the Vietnamese
\* names are written without diacritics; "Khac" is the fallback "Other").
Categories ==
    {"An uong & Do uong", "Di lai", "Nha o", "Mua sam", "Giai tri", "Suc khoe",
     "Giao duc", "Hoa don & Tien ich", "Ca nhan", "Cho vay", "Vay tien", "Khac"}
Fallback == "Khac"

\* `category not in [<the twelve>, None]`
CategoryAllowed(v) == v.t = "null" \/ (v.t = "str" /\ v.s \in Categories)

required_keys ==
    {"request_type", "is_income", "is_expense", "amount", "category",
     "description", "analysis_query"}

\* What the endpoint call produced: the call raised ("callerror"), the text
\* is empty ("empty") or otherwise not JSON ("notjson"), or the text parses
\* to an object, an array, a string, a string in which every required key
\* occurs ("keystring"), a number or boolean ("scalar"), or null.  For an
\* object, missing is the set of required keys it lacks; request_type is None
\* for null.
Shapes == {"object", "array", "string", "keystring", "scalar", "null", "empty",
           "notjson", "callerror"}

Dict(rt, inc, exp, am, cat, desc, q) ==
    [absent |-> FALSE, request_type |-> rt, is_income |-> inc,
     is_expense |-> exp, amount |-> am, category |-> cat,
     description |-> desc, analysis_query |-> q]

Absent == [Dict(None, JNull, JNull, JNull, JNull, JNull, JNull)
             EXCEPT !.absent = TRUE]

DefaultOther ==
    Dict("other", JBool(FALSE), JBool(FALSE), JNull, JNull, JNull, JNull)

\* A variant that coerces the category whatever the two flags say.
ValidateCategoryAnyFlags(d) ==
    IF ~CategoryAllowed(d.category) THEN [d EXCEPT !.category = JStr(Fallback)]
    ELSE d

\* Lines 153-159: the category of a transaction.
ValidateCategory(d) ==
    IF (Truthy(d.is_expense) \/ Truthy(d.is_income))
       /\ ~CategoryAllowed(d.category)
    THEN [d EXCEPT !.category = JStr(Fallback)]
    ELSE d

\* A variant that degrades the result when float() fails.
ValidateAmountDegrading(d) ==
    IF d.amount.t # "null" /\ ToFloat(d.amount).ok
    THEN [d EXCEPT !.amount = JNum(ToFloat(d.amount).val)]
    ELSE [d EXCEPT !.amount = JNull, !.request_type = "other"]

\* Lines 160-169: the amount of a transaction.
ValidateAmount(d) ==
    IF d.amount.t # "null"
    THEN IF ToFloat(d.amount).ok
         THEN [d EXCEPT !.amount = JNum(ToFloat(d.amount).val)]
         ELSE [d EXCEPT !.amount = JNull]
    ELSE [d EXCEPT !.request_type = "other"]

Response(shape, missing, rt, inc, exp, am, cat, q) ==
    [shape |-> shape, missing |-> missing, request_type |-> rt,
     is_income |-> inc, is_expense |-> exp, amount |-> am, category |-> cat,
     description |-> JNull, analysis_query |-> q]

NoResponse ==
    Response("none", {}, None, JNull, JNull, JNull, JNull, JNull)

\* A variant without the branch for an unknown request_type.
analyze_keeping_unknown_type(r) ==
    CASE r.shape \in {"callerror", "empty", "notjson"} -> Absent
      [] r.shape \in {"scalar", "null", "keystring"} -> Absent
      [] r.shape \in {"array", "string"} -> DefaultOther
      [] r.shape = "object" ->
           IF r.missing # {} THEN DefaultOther
           ELSE LET d == Dict(r.request_type, r.is_income, r.is_expense,
                              r.amount, r.category, r.description,
                              r.analysis_query)
                IN  CASE d.request_type = "transaction" ->
                           ValidateAmount(ValidateCategory(d))
                      [] d.request_type = "analysis" ->
                           IF ~Truthy(d.analysis_query)
                           THEN [d EXCEPT !.request_type = "other"]
                           ELSE d
                      [] d.request_type = "other" -> d
                      [] OTHER -> d

\* A variant that answers an empty text with the default result.
analyze_empty_as_other(r) ==
    CASE r.shape \in {"callerror", "notjson"} -> Absent
      [] r.shape \in {"scalar", "null", "keystring"} -> Absent
      [] r.shape \in {"array", "string", "empty"} -> DefaultOther
      [] r.shape = "object" ->
           IF r.missing # {} THEN DefaultOther
           ELSE LET d == Dict(r.request_type, r.is_income, r.is_expense,
                              r.amount, r.category, r.description,
                              r.analysis_query)
                IN  CASE d.request_type = "transaction" ->
                           ValidateAmount(ValidateCategory(d))
                      [] d.request_type = "analysis" ->
                           IF ~Truthy(d.analysis_query)
                           THEN [d EXCEPT !.request_type = "other"]
                           ELSE d
                      [] d.request_type = "other" -> d
                      [] OTHER -> [d EXCEPT !.request_type = "other"]

\* analyze_expense_message from the endpoint's answer on.  Everything from
\* the call on is inside try/except Exception, so the function never raises:
\* a text that is not JSON gives None (lines 184-186), and so does a JSON
\* number, boolean or null, on which `k in result_json` raises TypeError, and
\* a string holding every key, on which .get raises AttributeError (lines
\* 187-189).  An array or another string fails the key test of line 143.
analyze_expense_message(r) ==
    CASE r.shape \in {"callerror", "empty", "notjson"} -> Absent
      [] r.shape \in {"scalar", "null", "keystring"} -> Absent
      [] r.shape \in {"array", "string"} -> DefaultOther
      [] r.shape = "object" ->
           IF r.missing # {} THEN DefaultOther
           ELSE LET d == Dict(r.request_type, r.is_income, r.is_expense,
                              r.amount, r.category, r.description,
                              r.analysis_query)
                IN  CASE d.request_type = "transaction" ->
                           ValidateAmount(ValidateCategory(d))
                      [] d.request_type = "analysis" ->
                           IF ~Truthy(d.analysis_query)
                           THEN [d EXCEPT !.request_type = "other"]
                           ELSE d
                      [] d.request_type = "other" -> d
                      [] OTHER -> [d EXCEPT !.request_type = "other"]

\* ---------------------------------------------------------- transaction store
\* A spreadsheet is the list of its sheets, each a title and its rows; a row
\* is a list of cells.  A new Google spreadsheet has one sheet, "Sheet1".
HEADER_ROW ==
    <<JStr("Date"), JStr("Amount"), JStr("Category"), JStr("Description"),
      JStr("Type")>>

NewSpreadsheet == <<[title |-> "Sheet1", rows |-> <<>>]>>

\* strftime('%Y-%m') of the months the clock goes through.
MonthTitles == <<"2025-04", "2025-05">>

SheetIndex(ss, title) ==
    LET hits == {i \in 1..Len(ss) : ss[i].title = title}
    IN  IF hits = {} THEN 0 ELSE CHOOSE i \in hits : \A j \in hits : i <= j

\* batchUpdate addSheet: a new empty sheet at the end.
AddSheet(ss, title) == Append(ss, [title |-> title, rows |-> <<>>])

\* values().update of "<title>!A1" with one row: row 1 is overwritten.
UpdateA1(ss, title, row) ==
    LET i == SheetIndex(ss, title)
    IN  [ss EXCEPT ![i].rows = IF Len(@) = 0 THEN <<row>>
                                ELSE [@ EXCEPT ![1] = row]]

\* A variant that writes the row with values().update at "<title>!A2".
AppendRowAtA2(ss, title, row) ==
    LET i == SheetIndex(ss, title)
    IN  [ss EXCEPT ![i].rows = IF Len(@) < 2 THEN Append(@, row)
                                ELSE [@ EXCEPT ![2] = row]]

\* values().append at "<title>!A1" with INSERT_ROWS: after the last row.
AppendRow(ss, title, row) ==
    LET i == SheetIndex(ss, title)
    IN  [ss EXCEPT ![i].rows = Append(@, row)]

\* Which backend request of an append is rejected, and how: an HTTP status
\* (HttpError) or "neterr" for any other exception of the client.
FailPoints == {"get", "addSheet", "header", "append"}
FailKinds == {"403", "404", "500", "neterr"}
NoFail == [at |-> "none", kind |-> "ok"]
Fails == {NoFail} \cup {[at |-> a, kind |-> k] : a \in FailPoints, k \in FailKinds}

\* _get_or_create_monthly_sheet: the spreadsheet afterwards and the value
\* returned.  Both except branches return False.
get_or_create_monthly_sheet(ss, sheet_name, fail) ==
    IF fail.at = "get" THEN [ss |-> ss, ret |-> FALSE]
    ELSE IF SheetIndex(ss, sheet_name) # 0 THEN [ss |-> ss, ret |-> TRUE]
    ELSE IF fail.at = "addSheet" THEN [ss |-> ss, ret |-> FALSE]
    ELSE IF fail.at = "header"
         THEN [ss |-> AddSheet(ss, sheet_name), ret |-> FALSE]
    ELSE [ss |-> UpdateA1(AddSheet(ss, sheet_name), sheet_name, HEADER_ROW),
          ret |-> TRUE]

\* The request of an append that the backend rejects under fail, "none" when
\* the request fail names is not made: addSheet and the header update are
\* made only for a sheet that does not exist yet, the append only after
\* _get_or_create_monthly_sheet has returned True.
RejectedRequest(ss, sheet_name, fail) ==
    CASE fail.at = "get" -> "get"
      [] fail.at \in {"addSheet", "header"} ->
           IF SheetIndex(ss, sheet_name) = 0 THEN fail.at ELSE "none"
      [] OTHER -> fail.at

\* The rejections that can happen to an append: those of a request it makes.
RequestFails(ss, sheet_name) ==
    {f \in Fails : RejectedRequest(ss, sheet_name, f) = f.at}

\* The row append_expense_to_sheet builds; date_str is kept to its month.
RowData(sheet_name, amount, category, description, transaction_type) ==
    <<JStr(sheet_name), JNum(ToFloat(amount).val), category, description,
      JStr(transaction_type)>>

\* append_expense_to_sheet at clock time now: the spreadsheet afterwards and
\* the outcome, "true", "false" or "raise" with the kind of the exception.
append_expense_to_sheet(ss, now, amount, category, description, transaction_type, fail) ==
    LET sheet_name == MonthTitles[now]
        g == get_or_create_monthly_sheet(ss, sheet_name, fail)
    IN  IF ~g.ret THEN [ss |-> g.ss, ret |-> "false", kind |-> "ok"]
        ELSE IF fail.at = "append"
        THEN [ss |-> g.ss, ret |-> "raise", kind |-> fail.kind]
        ELSE [ss |-> AppendRow(g.ss, sheet_name,
                               RowData(sheet_name, amount, category,
                                       description, transaction_type)),
              ret |-> "true", kind |-> "ok"]

\* The clock moves on to the next month.
Tick ==
    /\ clock < Len(MonthTitles)
    /\ clock' = clock + 1
    /\ UNCHANGED <<registry, spreadsheets, written, botVars, callVars>>

\* ---------------------------------------------------------------- analysis
\* A sheet title that matches ^\d{4}-\d{2}$ (of the titles of the model).
MonthlyTitles == {"2025-04", "2025-05"}
monthly_sheet_pattern(title) == title \in MonthlyTitles

\* A row padded with None up to the five columns of HEADER_ROW.
Cell(row, k) == IF k <= Len(row) THEN row[k] ELSE JNull

\* str(v).replace(',', '.') followed by float(): cells of the model hold no
\* decimal comma, so this is float() of the cell's text.
AmountOfCell(v) ==
    IF ~Truthy(v) THEN JNum(0)
    ELSE IF ToFloat(v).ok THEN JNum(ToFloat(v).val)
    ELSE JNull

ExpenseRecord(row) ==
    [Date |-> Cell(row, 1), Amount |-> AmountOfCell(Cell(row, 2)),
     Category |-> Cell(row, 3), Description |-> Cell(row, 4),
     Type |-> Cell(row, 5)]

RECURSIVE ScanSheets(_, _, _)
ScanSheets(ss, i, failed) ==
    IF i > Len(ss) THEN <<>>
    ELSE LET rows == ss[i].rows
             here == IF monthly_sheet_pattern(ss[i].title)
                        /\ ss[i].title \notin failed
                     THEN [k \in 1..(IF Len(rows) > 1 THEN Len(rows) - 1 ELSE 0)
                              |-> ExpenseRecord(rows[k + 1])]
                     ELSE <<>>
         IN  here \o ScanSheets(ss, i + 1, failed)

\* A variant whose scan re-raises the first rejected range read.
get_all_expenses_aborting(ss, meta, failed) ==
    IF meta # "ok" THEN [raise |-> meta, records |-> <<>>]
    ELSE IF \E i \in 1..Len(ss) : ss[i].title \in failed
    THEN [raise |-> "500", records |-> <<>>]
    ELSE [raise |-> "ok", records |-> ScanSheets(ss, 1, failed)]

\* get_all_expenses_for_analysis: meta is the backend's answer to the
\* metadata read, failed the titles whose range read is rejected.
get_all_expenses_for_analysis(ss, meta, failed) ==
    IF meta # "ok" THEN [raise |-> meta, records |-> <<>>]
    ELSE [raise |-> "ok", records |-> ScanSheets(ss, 1, failed)]

\* A direct call of get_all_expenses_for_analysis and what it gave.
NoScan ==
    [sid |-> None, meta |-> "none", failed |-> {}, raise |-> "none",
     records |-> <<>>]

\* The range reads a scan makes: one for each sheet whose title matches.
RangeReads(ss) ==
    {ss[i].title : i \in {j \in 1..Len(ss) : monthly_sheet_pattern(ss[j].title)}}

\* --------------------------------------------------------------- dispatcher
\* The /register argument: none, or a URL; the URLs of the model and what
\* re.search(r"/spreadsheets/d/([a-zA-Z0-9-_]+)", url) finds in them.
Urls == {"https://docs.google.com/spreadsheets/d/s1/edit",
         "https://docs.google.com/spreadsheets/d/s2/edit",
         "https://docs.google.com/document/d/s1/edit"}
NoArgs == "<no args>"

\* A variant whose pattern is only "/d/([a-zA-Z0-9-_]+)".
extract_id_after_d(url) ==
    CASE url = "https://docs.google.com/spreadsheets/d/s1/edit" -> "s1"
      [] url = "https://docs.google.com/spreadsheets/d/s2/edit" -> "s2"
      [] url = "https://docs.google.com/document/d/s1/edit" -> "s1"
      [] OTHER -> None

extract_sheet_id_from_url(url) ==
    CASE url = "https://docs.google.com/spreadsheets/d/s1/edit" -> "s1"
      [] url = "https://docs.google.com/spreadsheets/d/s2/edit" -> "s2"
      [] OTHER -> None

Tasks == {1, 2}

\* A handler run: where it is (pc), what it found, the reply it is about to
\* send (pending) and the replies it has sent.  hadRow records whether the
\* master sheet held a row of the user when the handler started, rejected
\* the request of its append that the backend rejected (for register, the
\* status with which the registry read or write was rejected), arg the
\* argument of /register and requests the number of requests the handler has
\* sent to the master sheet; steps lists, in the order of the code, what a
\* handle_message run has done so far: "lookup" (get_user_sheet_id),
\* "classify" (analyze_expense_message), "append" (append_expense_to_sheet),
\* "scan" (get_all_expenses_for_analysis), "report"
\* (generate_expense_report) and "reply" (a message sent to the chat);
\* incomplete records that the classifier's result has a null amount or a
\* null or empty category.
Idle ==
    [pc |-> "idle", kind |-> "none", user |-> "", hadRow |-> FALSE,
     lookup |-> "none", sheet |-> None, cls |-> "none", branch |-> "none",
     append |-> "none", rejected |-> "none", wrote |-> FALSE,
     arg |-> "", requests |-> 0, incomplete |-> FALSE, chart_json |-> FALSE,
     rendered |-> FALSE, pending |-> "", replies |-> <<>>, steps |-> <<>>]

\* The slot an update's handler runs in: the slots are alike, so the first
\* one whose handler has returned is taken.
Free(t) ==
    /\ tasks[t].pc \in {"idle", "done"}
    /\ \A t2 \in Tasks : tasks[t2].pc \in {"idle", "done"} => t <= t2

HasRow(values, u) ==
    \E i \in 1..Len(values) : Len(values[i]) >= 1 /\ values[i][1] = u

\* register up to its reply: lines 68-137.
Register(t, u, arg, rd, wr) ==
    LET sheet_id == IF arg = NoArgs THEN None
                    ELSE extract_sheet_id_from_url(arg)
        r == add_user_to_master_sheet(registry, u, sheet_id, rd, wr)
        run == [Idle EXCEPT !.kind = "register", !.user = u, !.arg = arg,
                            !.hadRow = HasRow(registry, u),
                            !.pc = "await_reply"]
    IN  /\ Free(t) /\ nmsgs < MaxMessages
        /\ nmsgs' = nmsgs + 1
        /\ IF arg = NoArgs
           THEN /\ tasks' = [tasks EXCEPT ![t] =
                      [run EXCEPT !.branch = "rejected", !.pending = "usage"]]
                /\ UNCHANGED <<registry, lastWrite>>
           ELSE IF sheet_id = None
           THEN /\ tasks' = [tasks EXCEPT ![t] =
                      [run EXCEPT !.branch = "rejected",
                                  !.pending = "invalid_url"]]
                /\ UNCHANGED <<registry, lastWrite>>
           ELSE /\ tasks' = [tasks EXCEPT ![t] =
                      [run EXCEPT !.branch = "registering",
                                  !.sheet = sheet_id, !.wrote = r.wrote,
                                  !.rejected = IF rd # "ok" THEN rd
                                               ELSE IF ~r.ret THEN wr
                                               ELSE "none",
                                  !.requests = IF rd = "ok"
                                                  /\ (r.wrote \/ ~r.ret)
                                               THEN 2 ELSE 1,
                                  !.pending = IF r.ret THEN "registered"
                                              ELSE "register_failed"]]
                /\ registry' = r.table
                /\ lastWrite' = IF r.wrote
                                THEN [lastWrite EXCEPT ![u] = sheet_id]
                                ELSE lastWrite
        /\ UNCHANGED <<storeVars, callVars>>

\* The endpoint's answers the bot is run on: one for each way through
\* handle_message.
DispatchResponses ==
    {Response("callerror", {}, None, JNull, JNull, JNull, JNull, JNull),
     Response("array", {}, None, JNull, JNull, JNull, JNull, JNull),
     Response("object", {}, "transaction", JBool(FALSE), JBool(TRUE), JNum(5),
              JStr("An uong & Do uong"), JNull),
     Response("object", {}, "transaction", JBool(FALSE), JBool(FALSE),
              JNum(0 - 5), JStr("Do choi"), JNull),
     Response("object", {}, "transaction", JBool(TRUE), JBool(FALSE),
              JStr("abc"), JStr(Fallback), JNull),
     Response("object", {}, "transaction", JBool(FALSE), JBool(TRUE), JNum(5),
              JNull, JNull),
     Response("object", {}, "analysis", JBool(FALSE), JBool(FALSE), JNull,
              JNull, JStr("thong ke thang nay")),
     Response("object", {}, "analysis", JBool(FALSE), JBool(FALSE), JNull,
              JNull, JNull),
     Response("object", {}, "other", JBool(FALSE), JBool(FALSE), JNull,
              JNull, JNull)}

\* A variant that reports success whatever the append returned.
AppendReplyAlwaysLogged(r) == "logged"

\* The reply after the append: lines 214-237.
AppendReply(r) ==
    CASE r.ret = "true" -> "logged"
      [] r.ret = "false" -> "cannot_write"
      [] r.ret = "raise" /\ r.kind = "403" -> "permission_denied"
      [] r.ret = "raise" /\ r.kind = "404" -> "sheet_not_found"
      [] r.ret = "raise" /\ r.kind = "neterr" -> "append_unexpected"
      [] OTHER -> "append_api_error"

\* handle_message up to its first await or its return: lines 163-249.
\* rd is the backend's answer to the registry read, resp the endpoint's
\* answer to the message, fail the rejected request of the append, if any.
Started(u) ==
    [Idle EXCEPT !.kind = "message", !.user = u, !.requests = 1,
                 !.steps = <<"lookup">>,
                 !.hadRow = HasRow(registry, u)]

\* A variant that answers what it does not act on.
SilentWithReply(t, run) ==
    /\ tasks' = [tasks EXCEPT ![t] =
          [run EXCEPT !.pc = "await_reply", !.pending = "not_understood"]]
    /\ UNCHANGED storeVars

\* The handler returns without a reply.
Silent(t, run) ==
    /\ tasks' = [tasks EXCEPT ![t] = [run EXCEPT !.pc = "done"]]
    /\ UNCHANGED storeVars

\* Lines 204-239: the transaction branch.
LogTransaction(t, run, analysis_result, fail) ==
    LET amount == analysis_result.amount
        category == analysis_result.category
        description == analysis_result.description
        transaction_type == IF Truthy(analysis_result.is_income)
                            THEN "Thu" ELSE "Chi"
        r == append_expense_to_sheet(spreadsheets[run.sheet], clock, amount,
                                     category, description, transaction_type,
                                     fail)
    IN  /\ tasks' = [tasks EXCEPT ![t] =
              [run EXCEPT !.branch = "appending", !.append = r.ret,
                          !.steps = Append(@, "append"),
                          !.rejected = RejectedRequest(spreadsheets[run.sheet],
                                                       MonthTitles[clock], fail),
                          !.pc = "await_reply", !.pending = AppendReply(r)]]
        /\ spreadsheets' = [spreadsheets EXCEPT ![run.sheet] = r.ss]
        /\ written' =
              IF r.ret = "true"
              THEN [written EXCEPT ![run.sheet] =
                      Append(@, [title |-> MonthTitles[clock],
                                 row |-> RowData(MonthTitles[clock], amount,
                                                 category, description,
                                                 transaction_type)])]
              ELSE written
        /\ UNCHANGED clock

\* A variant whose test of line 211 is only `amount is not None`.
DispatchOnAmountOnly(t, run, analysis_result) ==
    IF analysis_result.absent
    THEN Silent(t, [run EXCEPT !.cls = "absent", !.branch = "ignored",
                               !.steps = Append(@, "classify")])
    ELSE LET cl == [run EXCEPT !.cls = analysis_result.request_type,
                               !.incomplete =
                                   \/ analysis_result.amount = JNull
                                   \/ analysis_result.category = JNull
                                   \/ analysis_result.category = JStr(""),
                               !.steps = Append(@, "classify")]
         IN  CASE analysis_result.request_type = "transaction" ->
                    IF analysis_result.amount.t # "null"
                    THEN \E fail \in RequestFails(spreadsheets[run.sheet],
                                                   MonthTitles[clock]) :
                            LogTransaction(t, cl, analysis_result, fail)
                    ELSE Silent(t, [cl EXCEPT !.branch = "ignored"])
               [] analysis_result.request_type = "analysis" ->
                    IF ~Truthy(analysis_result.analysis_query)
                    THEN Silent(t, [cl EXCEPT !.branch = "ignored"])
                    ELSE /\ tasks' = [tasks EXCEPT ![t] =
                               [cl EXCEPT !.branch = "reporting",
                                          !.pc = "await_progress",
                                          !.pending = "analysing"]]
                         /\ UNCHANGED storeVars
               [] OTHER -> Silent(t, [cl EXCEPT !.branch = "ignored"])

\* Lines 192-312: from the classification on.
Dispatch(t, run, analysis_result) ==
    IF analysis_result.absent
    THEN Silent(t, [run EXCEPT !.cls = "absent", !.branch = "ignored",
                               !.steps = Append(@, "classify")])
    ELSE LET cl == [run EXCEPT !.cls = analysis_result.request_type,
                               !.incomplete =
                                   \/ analysis_result.amount = JNull
                                   \/ analysis_result.category = JNull
                                   \/ analysis_result.category = JStr(""),
                               !.steps = Append(@, "classify")]
         IN  CASE analysis_result.request_type = "transaction" ->
                    IF analysis_result.amount.t # "null"
                       /\ Truthy(analysis_result.category)
                    THEN \E fail \in RequestFails(spreadsheets[run.sheet],
                                                   MonthTitles[clock]) :
                            LogTransaction(t, cl, analysis_result, fail)
                    ELSE Silent(t, [cl EXCEPT !.branch = "ignored"])
               [] analysis_result.request_type = "analysis" ->
                    IF ~Truthy(analysis_result.analysis_query)
                    THEN Silent(t, [cl EXCEPT !.branch = "ignored"])
                    ELSE /\ tasks' = [tasks EXCEPT ![t] =
                               [cl EXCEPT !.branch = "reporting",
                                          !.pc = "await_progress",
                                          !.pending = "analysing"]]
                         /\ UNCHANGED storeVars
               [] OTHER -> Silent(t, [cl EXCEPT !.branch = "ignored"])

HandleMessage(t, u, rd) ==
    LET user_sheet_id == get_user_sheet_id(registry, u)
    IN  /\ Free(t) /\ nmsgs < MaxMessages
        /\ nmsgs' = nmsgs + 1
        /\ UNCHANGED <<registry, lastWrite, callVars>>
        /\ IF rd # "ok"
           THEN /\ tasks' = [tasks EXCEPT ![t] =
                      [Started(u) EXCEPT !.lookup = "error",
                                         !.branch = "lookup_error",
                                         !.pc = "await_reply",
                                         !.pending = "registration_check_error"]]
                /\ UNCHANGED storeVars
           ELSE IF user_sheet_id = None
           THEN Silent(t, [Started(u) EXCEPT !.lookup = "absent",
                                             !.branch = "ignored"])
           ELSE \E resp \in DispatchResponses :
                   Dispatch(t, [Started(u) EXCEPT !.lookup = "found",
                                                  !.sheet = user_sheet_id],
                            analyze_expense_message(resp))

\* A variant that sends its text twice.
SendReplyTwice(t) ==
    /\ tasks[t].pc = "await_reply"
    /\ tasks' = [tasks EXCEPT ![t].replies =
                    @ \o <<tasks[t].pending, tasks[t].pending>>,
                              ![t].steps = @ \o <<"reply", "reply">>,
                              ![t].pending = "", ![t].pc = "done"]
    /\ UNCHANGED <<registry, nmsgs, lastWrite, storeVars, callVars>>

\* An `await update.message.reply_text(...)` that ends the handler.
SendReply(t) ==
    /\ tasks[t].pc = "await_reply"
    /\ tasks' = [tasks EXCEPT ![t].replies = Append(@, tasks[t].pending),
                              ![t].steps = Append(@, "reply"),
                              ![t].pending = "", ![t].pc = "done"]
    /\ UNCHANGED <<registry, nmsgs, lastWrite, storeVars, callVars>>

\* What generate_expense_report returns: (None, None), (text, None) or
\* (text, chart_json).
Reports == {[summary |-> FALSE, chart_json |-> FALSE],
            [summary |-> TRUE, chart_json |-> FALSE],
            [summary |-> TRUE, chart_json |-> TRUE]}

\* handle_message from the progress reply to the next await: lines 249-273
\* and 298-306.  meta is the backend's answer to the metadata read, failed
\* the titles whose range read is rejected, report what the report generator
\* returns.
Analyse(t) ==
    LET sent == [tasks[t] EXCEPT !.replies = Append(@, tasks[t].pending),
                                 !.steps = @ \o <<"reply", "scan">>,
                                 !.pending = ""]
        reported == [sent EXCEPT !.steps = Append(@, "report")]
        ss == spreadsheets[tasks[t].sheet]
        last(run, text) == tasks' = [tasks EXCEPT ![t] =
                         [run EXCEPT !.pc = "await_reply", !.pending = text]]
    IN  /\ tasks[t].pc = "await_progress"
        /\ UNCHANGED <<registry, nmsgs, lastWrite, storeVars, callVars>>
        /\ \E meta \in {"ok"} \cup FailKinds :
              LET raised == get_all_expenses_for_analysis(ss, meta, {}).raise
              IN  IF raised = "neterr" THEN last(sent, "analysis_unexpected")
                  ELSE IF raised # "ok" THEN last(sent, "sheet_access_error")
                  ELSE \E failed \in SUBSET MonthlyTitles :
                          IF get_all_expenses_for_analysis(ss, meta, failed).records
                                = <<>>
                          THEN last(sent, "no_data")
                          ELSE \E report \in Reports :
                                  IF ~report.summary
                                  THEN last(reported, "analysis_failed")
                                  ELSE tasks' = [tasks EXCEPT ![t] =
                                          [reported EXCEPT
                                             !.pc = "await_summary",
                                             !.chart_json = report.chart_json]]

\* A variant without the fallback texts of lines 274-279.
SendSummaryNoFallback(t, send, image) ==
    LET render == tasks[t].chart_json /\ image
    IN  /\ tasks[t].pc = "await_summary"
        /\ tasks' = [tasks EXCEPT ![t].replies = IF send = "ok"
                                                 THEN Append(@, "summary")
                                                 ELSE @,
                                  ![t].steps = IF send = "ok"
                                               THEN Append(@, "reply")
                                               ELSE @,
                                  ![t].rendered = render,
                                  ![t].pc = IF render THEN "await_photo"
                                            ELSE "done"]
        /\ UNCHANGED <<registry, nmsgs, lastWrite, storeVars, callVars>>

\* The summary reply (lines 272-279, with its fallback texts when the send
\* is rejected), then the rendering of the chart (lines 281-296).
SendSummary(t, send, image) ==
    LET text == CASE send = "ok" -> "summary"
                  [] send = "badrequest" -> "format_error"
                  [] OTHER -> "cannot_send_summary"
        render == tasks[t].chart_json /\ image
    IN  /\ tasks[t].pc = "await_summary"
        /\ tasks' = [tasks EXCEPT ![t].replies = Append(@, text),
                                  ![t].steps = Append(@, "reply"),
                                  ![t].rendered = render,
                                  ![t].pc = IF render THEN "await_photo"
                                            ELSE "done"]
        /\ UNCHANGED <<registry, nmsgs, lastWrite, storeVars, callVars>>

\* reply_photo, or the text sent in its place when it is rejected.
SendPhoto(t, send) ==
    /\ tasks[t].pc = "await_photo"
    /\ tasks' = [tasks EXCEPT ![t].replies =
                    Append(@, IF send = "ok" THEN "photo" ELSE "chart_not_sent"),
                              ![t].steps = Append(@, "reply"),
                              ![t].pc = "done"]
    /\ UNCHANGED <<registry, nmsgs, lastWrite, storeVars, callVars>>

\* -------------------------------------------------------------- first state
StoreInit ==
    /\ spreadsheets = [sid \in SheetIds |-> NewSpreadsheet]
    /\ clock = 1
    /\ written = [sid \in SheetIds |-> <<>>]

CallInit ==
    /\ hist = <<NoCall, NoCall>>
    /\ ncalls = 0
    /\ response = NoResponse
    /\ result = Absent
    /\ scanned = NoScan

BotInit ==
    /\ tasks = [t \in Tasks |-> Idle]
    /\ nmsgs = 0
    /\ lastWrite = [u \in Users |-> None]

\* ------------------------------------------------------------------ the bot
\* The sheets outlive the bot process.  It starts on a fresh master sheet and
\* fresh user spreadsheets, or on what an earlier run has left behind: here u1
\* registered with s1 and one expense of u1 logged in the first month.
SeededRow ==
    RowData(MonthTitles[1], JNum(5), JStr("An uong & Do uong"), JNull, "Chi")

InitFresh ==
    /\ registry = <<>>
    /\ StoreInit
    /\ BotInit

InitSeeded ==
    /\ registry = <<<<"u1", "s1">>>>
    /\ spreadsheets =
          [sid \in SheetIds |->
              IF sid = "s1"
              THEN AppendRow(
                     get_or_create_monthly_sheet(NewSpreadsheet, MonthTitles[1],
                                                 NoFail).ss,
                     MonthTitles[1], SeededRow)
              ELSE NewSpreadsheet]
    /\ clock = 1
    /\ written = [sid \in SheetIds |->
                     IF sid = "s1"
                     THEN <<[title |-> MonthTitles[1], row |-> SeededRow]>>
                     ELSE <<>>]
    /\ tasks = [t \in Tasks |-> Idle]
    /\ nmsgs = 0
    /\ lastWrite = [u \in Users |-> IF u = "u1" THEN "s1" ELSE None]

Init ==
    /\ CallInit
    /\ InitFresh \/ InitSeeded

Next ==
    \/ \E t \in Tasks, u \in Users, arg \in Urls \cup {NoArgs} :
          \E rd \in RequestAnswers(extract_sheet_id_from_url(arg) # None) :
             \E wr \in RequestAnswers(rd = "ok") :
                Register(t, u, arg, rd, wr)
    \/ \E t \in Tasks, u \in Users, rd \in Answers : HandleMessage(t, u, rd)
    \/ \E t \in Tasks : SendReply(t)
    \/ \E t \in Tasks : Analyse(t)
    \/ \E t \in Tasks, send \in {"ok", "badrequest", "error"},
          image \in BOOLEAN : SendSummary(t, send, image)
    \/ \E t \in Tasks, send \in {"ok", "error"} : SendPhoto(t, send)
    \/ Tick

Spec == Init /\ [][Next]_vars

\* ------------------------------------------------------- claims about the bot
\* Rows of the registry whose column A is u.
\* Row i is a row of u that holds a sheet id.
FullRowOf(values, i, u) == Len(values[i]) >= 2 /\ values[i][1] = u

\* The registry maps u to sid: the first row of u that holds a sheet id
\* holds sid.
MapsTo(values, u, sid) ==
    \E i \in 1..Len(values) :
        /\ FullRowOf(values, i, u) /\ values[i][2] = sid
        /\ \A j \in 1..(i - 1) : ~FullRowOf(values, j, u)

RowsOf(values, u) ==
    Cardinality({i \in 1..Len(values) : Len(values[i]) >= 1 /\ values[i][1] = u})

NumImages(replies) == Cardinality({i \in 1..Len(replies) : replies[i] = "photo"})
NumTexts(replies) == Len(replies) - NumImages(replies)

UnregisteredMessage(t) == tasks[t].kind = "message" /\ ~tasks[t].hadRow

\* C1 as stated: a message of a user without a row in the registry gets no
\* reply.
C1_Original ==
    \A t \in Tasks : UnregisteredMessage(t) => tasks[t].replies = <<>>

\* C1 amended: a message of a user without a row in the registry gets no
\* reply, text or image, whenever the read of the registry succeeds, and the
\* handler then returns at once; when the read is rejected the handler sends
\* one text, the registration-check error, and nothing else.
C1_SilenceWhenReadSucceeds ==
    \A t \in Tasks :
        UnregisteredMessage(t) =>
            IF tasks[t].lookup = "error"
            THEN /\ tasks[t].replies \in {<<>>, <<"registration_check_error">>}
                 /\ tasks[t].pc = "done" => tasks[t].replies # <<>>
            ELSE /\ tasks[t].replies = <<>> /\ tasks[t].pending = ""
                 /\ tasks[t].pc = "done" /\ tasks[t].lookup = "absent"

\* C1 witness: while another user is registered, a message of an
\* unregistered user, not the first message handled, is ignored without a
\* reply.
C1_Witness ==
    /\ HasRow(registry, "u1") /\ nmsgs >= 2
    /\ \E t \in Tasks :
          /\ UnregisteredMessage(t) /\ tasks[t].user = "u2"
          /\ tasks[t].lookup = "absent" /\ tasks[t].pc = "done"
          /\ tasks[t].replies = <<>>

\* C4: the registry holds at most one row for each user.
C4_OneRowPerUser ==
    \A u \in Users : RowsOf(registry, u) <= 1

Registering(t, u) ==
    /\ tasks[t].kind = "register" /\ tasks[t].user = u
    /\ tasks[t].branch = "registering"

\* C4 witness: two register handlers of one user in flight together, with
\* different sheet ids, have both written, and the user has one row.
C4_Witness ==
    \E u \in Users :
        /\ \A t \in Tasks : Registering(t, u) /\ tasks[t].wrote
                            /\ tasks[t].pc = "await_reply"
        /\ tasks[1].sheet # tasks[2].sheet
        /\ RowsOf(registry, u) = 1

Finished(t, branch) ==
    /\ tasks[t].kind = "message" /\ tasks[t].pc = "done"
    /\ tasks[t].branch = branch

\* C8 as stated: a run through the transaction branch sends one text reply;
\* a run through the analysis branch sends one text reply and, only when a
\* chart is rendered, one image reply.
C8_Original ==
    \A t \in Tasks :
        /\ Finished(t, "appending") =>
              NumTexts(tasks[t].replies) = 1 /\ NumImages(tasks[t].replies) = 0
        /\ Finished(t, "reporting") =>
              /\ NumTexts(tasks[t].replies) = 1
              /\ NumImages(tasks[t].replies) <= 1
              /\ NumImages(tasks[t].replies) = 1 => tasks[t].rendered

\* C8 amended: with every text reply other than the summary accepted by
\* Telegram, a run through the transaction branch that reaches the append
\* sends exactly one text reply and no image, and one that lacks the amount
\* or the category sends nothing; a run through the analysis branch sends
\* exactly two text replies, the progress notice and then one result or error
\* text, and, only when a chart is rendered, one more reply: the image, or the
\* text that takes its place when the image cannot be sent.
C8_RepliesPerBranch ==
    \A t \in Tasks :
        /\ Finished(t, "appending") =>
              /\ tasks[t].cls = "transaction"
              /\ NumTexts(tasks[t].replies) = 1
              /\ NumImages(tasks[t].replies) = 0
        /\ (Finished(t, "ignored") /\ tasks[t].cls = "transaction") =>
              tasks[t].replies = <<>>
        /\ Finished(t, "reporting") =>
              /\ Len(tasks[t].replies) = (IF tasks[t].rendered THEN 3 ELSE 2)
              /\ tasks[t].replies[1] = "analysing"
              /\ tasks[t].replies[2] # "photo"
              /\ NumImages(tasks[t].replies) <= 1
              /\ NumImages(tasks[t].replies) = 1 => tasks[t].rendered

\* C8 witness: an analysis run that sent the progress notice, the summary and
\* the chart, next to a transaction run that sent its one reply.
C8_Witness ==
    /\ \E t \in Tasks :
          /\ Finished(t, "reporting")
          /\ tasks[t].replies = <<"analysing", "summary", "photo">>
    /\ \E t \in Tasks :
          /\ Finished(t, "appending") /\ tasks[t].replies = <<"logged">>

\* C14 as stated: whenever a backend request made during an append is
\* rejected, append_expense_to_sheet raises the error to its caller and does
\* not return a plain failure.
C14_Original ==
    \A t \in Tasks :
        (tasks[t].branch = "appending" /\ tasks[t].rejected # "none") =>
            tasks[t].append = "raise"

\* What a handler has told the user, the reply it is about to send included.
Said(t) ==
    tasks[t].replies \o (IF tasks[t].pending = "" THEN <<>>
                         ELSE <<tasks[t].pending>>)

\* C15 as stated: a registration rejected for lack of permission and one
\* rejected because the backend is unavailable are told apart: the user gets
\* a different message for each.
C15_Original ==
    \A t1, t2 \in Tasks :
        (/\ tasks[t1].kind = "register" /\ tasks[t1].rejected = "403"
         /\ tasks[t2].kind = "register" /\ tasks[t2].rejected = "500")
        => Said(t1) # Said(t2)

\* C16 as stated: when the classifier returns absent for a registered user's
\* message, the user receives a reply.
C16_Original ==
    \A t \in Tasks :
        (/\ tasks[t].kind = "message" /\ tasks[t].lookup = "found"
         /\ tasks[t].cls = "absent" /\ tasks[t].pc = "done")
        => tasks[t].replies # <<>>

\* The URLs of the model that contain /spreadsheets/d/<id>.
SheetUrls == {"https://docs.google.com/spreadsheets/d/s1/edit",
              "https://docs.google.com/spreadsheets/d/s2/edit"}

MalformedRegister(run) == run.kind = "register" /\ run.arg \notin SheetUrls

\* C17: a /register with no argument or with a URL without
\* /spreadsheets/d/<id> is rejected: the handler sends no request to the
\* registry, tells the user one thing, the usage text or the invalid-URL
\* text, and has sent exactly that one reply when it returns; the step that
\* handles the command leaves the registry table as it was.
C17_MalformedRejected ==
    /\ [](\A t \in Tasks :
            MalformedRegister(tasks[t]) =>
                /\ tasks[t].branch = "rejected"
                /\ tasks[t].requests = 0 /\ ~tasks[t].wrote
                /\ Said(t) = <<IF tasks[t].arg = NoArgs THEN "usage"
                               ELSE "invalid_url">>
                /\ tasks[t].pc = "done" => Len(tasks[t].replies) = 1)
    /\ [][\A t \in Tasks :
            (/\ tasks'[t] # tasks[t] /\ MalformedRegister(tasks'[t])
             /\ tasks'[t].pc = "await_reply")
                => (registry' = registry /\ lastWrite' = lastWrite)]_vars

\* C17 witness: with a user registered, a /register with a document URL and
\* one with no argument have both been answered with their one reply.
C17_Witness ==
    /\ registry # <<>>
    /\ \E t1, t2 \in Tasks :
          /\ MalformedRegister(tasks[t1]) /\ tasks[t1].arg = NoArgs
          /\ tasks[t1].replies = <<"usage">>
          /\ MalformedRegister(tasks[t2]) /\ tasks[t2].arg # NoArgs
          /\ tasks[t2].replies = <<"invalid_url">>

\* C18 as stated: every row the dispatcher has appended to a user's sheet
\* has a non-negative amount and a category of the fixed set.
C18_Original ==
    \A sid \in SheetIds :
        \A k \in 1..Len(written[sid]) :
            LET row == written[sid][k].row
            IN  /\ row[2].t = "num" /\ row[2].n >= 0
                /\ row[3].t = "str" /\ row[3].s \in Categories

\* C19: no step removes a row of the registry, and a user for whom
\* get_user_sheet_id finds a sheet id before a step has one after it.
C19_NeverDeleted ==
    [][/\ Len(registry') >= Len(registry)
       /\ \A u \in Users :
             get_user_sheet_id(registry, u) # None
                => get_user_sheet_id(registry', u) # None]_vars

\* C19 witness: a registered user has registered again with another sheet;
\* the row was updated in place and the lookup gives the new sheet id.
C19_Witness ==
    \E t \in Tasks, u \in Users :
        /\ Registering(t, u) /\ tasks[t].hadRow /\ tasks[t].wrote
        /\ Len(registry) = 1
        /\ get_user_sheet_id(registry, u) = tasks[t].sheet

\* The place of a step in the order lookup, classification, append or report
\* generation (with the read of the transaction data it works on), reply.
StepRank(step) ==
    CASE step = "lookup" -> 1
      [] step = "classify" -> 2
      [] step \in {"append", "scan", "report"} -> 3
      [] OTHER -> 4

\* The steps are in that order, each of the first three at most once, and
\* not both an append and a report.
InOrder(steps) ==
    /\ \A i, j \in 1..Len(steps) :
          i < j => /\ StepRank(steps[i]) <= StepRank(steps[j])
                   /\ steps[i] = steps[j] => steps[i] = "reply"
    /\ ~(\E i, j \in 1..Len(steps) :
            steps[i] = "append" /\ steps[j] \in {"scan", "report"})

\* The classifier is called only in a run whose lookup returned a sheet id,
\* so never for a user without a registry row.
ClassifiedOnlyWhenFound(run) ==
    (\E i \in 1..Len(run.steps) : run.steps[i] = "classify") =>
        run.lookup = "found" /\ run.sheet \in SheetIds /\ run.hadRow

\* C24 as stated: in every handle_message run the steps are in the order
\* lookup, classification, at most one of append or report generation,
\* reply, and the classifier is called only after the lookup returned a
\* sheet id.
C24_Original ==
    \A t \in Tasks :
        tasks[t].kind = "message" =>
            InOrder(tasks[t].steps) /\ ClassifiedOnlyWhenFound(tasks[t])

\* The steps without the progress reply: the reply that follows the
\* classification at once in a run that goes on to read the transaction
\* data.
WithoutProgressReply(steps) ==
    IF Len(steps) >= 4 /\ steps[3] = "reply" /\ steps[4] = "scan"
    THEN [k \in 1..(Len(steps) - 1) |-> IF k < 3 THEN steps[k] ELSE steps[k + 1]]
    ELSE steps

\* C24 amended: in every handle_message run the steps are in the order
\* lookup, classification, at most one of append or report generation,
\* reply, except that on the analysis branch one progress reply is sent
\* before the transaction data is read and the report generated; the
\* classifier is called only after the lookup returned a sheet id.
C24_OrderWithProgressReply ==
    \A t \in Tasks :
        tasks[t].kind = "message" =>
            /\ InOrder(WithoutProgressReply(tasks[t].steps))
            /\ ClassifiedOnlyWhenFound(tasks[t])

\* C24 witness: one run has gone through lookup, classification, append and
\* reply, another through lookup, classification, progress reply, read,
\* report generation and the summary reply.
C24_Witness ==
    \E t1, t2 \in Tasks :
        /\ tasks[t1].steps = <<"lookup", "classify", "append", "reply">>
        /\ tasks[t2].steps =
              <<"lookup", "classify", "reply", "scan", "report", "reply">>

\* C25: a run of a registered user whose message is classified as "other"
\* has returned after the classification: it has sent no reply and has none
\* to send, and it has made no append and no read of the transaction data.
C25_OtherIsIgnored ==
    \A t \in Tasks :
        (tasks[t].kind = "message" /\ tasks[t].cls = "other") =>
            /\ tasks[t].lookup = "found"
            /\ tasks[t].steps = <<"lookup", "classify">>
            /\ tasks[t].replies = <<>> /\ tasks[t].pending = ""
            /\ tasks[t].append = "none"
            /\ tasks[t].pc = "done"

\* C25 witness: a registered user's message was classified as "other" and
\* the handler has returned.
C25_Witness ==
    \E t \in Tasks :
        /\ tasks[t].kind = "message" /\ tasks[t].hadRow
        /\ tasks[t].cls = "other" /\ tasks[t].pc = "done"
        /\ tasks[t].replies = <<>>

\* C26: a run whose registry read raised makes no classification, no append,
\* no read of the transaction data and no report; it sends the registration
\* check error reply, once, and nothing else, whether or not the sender has
\* a registry row.
C26_LookupErrorReply ==
    \A t \in Tasks :
        (tasks[t].kind = "message" /\ tasks[t].lookup = "error") =>
            /\ tasks[t].cls = "none" /\ tasks[t].append = "none"
            /\ IF tasks[t].pc = "done"
               THEN /\ tasks[t].replies = <<"registration_check_error">>
                    /\ tasks[t].steps = <<"lookup", "reply">>
               ELSE /\ tasks[t].pc = "await_reply"
                    /\ tasks[t].pending = "registration_check_error"
                    /\ tasks[t].replies = <<>>
                    /\ tasks[t].steps = <<"lookup">>

\* C26 witness: the registry read raised for a sender with a registry row
\* and for one without, and each got the one error reply.
C26_Witness ==
    \E t1, t2 \in Tasks :
        /\ tasks[t1].lookup = "error" /\ tasks[t1].hadRow
        /\ tasks[t2].lookup = "error" /\ ~tasks[t2].hadRow
        /\ \A t \in {t1, t2} :
              tasks[t].replies = <<"registration_check_error">>

\* The data rows in the user sheets.
RECURSIVE NumDataRows(_, _)
NumDataRows(ss, i) ==
    IF i > Len(ss) THEN 0
    ELSE Cardinality({k \in 1..Len(ss[i].rows) : ss[i].rows[k] # HEADER_ROW})
           + NumDataRows(ss, i + 1)

NumSuccessReplies(run) ==
    Cardinality({k \in 1..Len(run.replies) : run.replies[k] = "logged"})

\* C27: a run sends or is about to send the success reply only when its
\* append returned True, it makes at most one append and sends at most one
\* success reply, and the success replies of the runs are no more than the
\* data rows in the user sheets.
C27_SuccessNeedsRow ==
    /\ \A t \in Tasks :
          tasks[t].kind = "message" =>
              /\ (NumSuccessReplies(tasks[t]) > 0 \/ tasks[t].pending = "logged")
                    => tasks[t].append = "true"
              /\ NumSuccessReplies(tasks[t]) <= 1
              /\ Cardinality({k \in 1..Len(tasks[t].steps) :
                                 tasks[t].steps[k] = "append"}) <= 1
    /\ NumSuccessReplies(tasks[1]) + NumSuccessReplies(tasks[2])
          <= NumDataRows(spreadsheets["s1"], 1)
               + NumDataRows(spreadsheets["s2"], 1)

\* C27 witness: a run has sent the success reply after an append that
\* returned True, and another run's append raised and got an error reply.
C27_Witness ==
    \E t1, t2 \in Tasks :
        /\ tasks[t1].append = "true" /\ tasks[t1].replies = <<"logged">>
        /\ tasks[t2].append = "raise" /\ Len(tasks[t2].replies) = 1

\* C28 as stated: a step that changes a user sheet is the handling of a
\* message of a user u to whom the registry maps that sheet at the lookup,
\* the run goes on with that sheet, and the sheet is registered to no other
\* user: the sheets registered to other users are unchanged.
C28_Original ==
    [][\A sid \in SheetIds :
          spreadsheets'[sid] # spreadsheets[sid] =>
              \E t \in Tasks :
                  /\ tasks'[t] # tasks[t] /\ nmsgs' = nmsgs + 1
                  /\ tasks'[t].kind = "message" /\ tasks'[t].sheet = sid
                  /\ MapsTo(registry, tasks'[t].user, sid)
                  /\ \A u2 \in Users \ {tasks'[t].user} :
                        ~MapsTo(registry, u2, sid)]_vars

\* The classifier's result of the run is a transaction without an amount or
\* without a category (null or empty).
IncompleteTransaction(run) ==
    /\ run.kind = "message" /\ run.cls = "transaction"
    /\ run.incomplete

\* C30: a run of a registered user whose message is classified as a
\* transaction with a null amount or with a null or empty category has
\* returned after the classification: no append, no reply sent or to send.
C30_IncompleteIsIgnored ==
    \A t \in Tasks :
        IncompleteTransaction(tasks[t]) =>
            /\ tasks[t].lookup = "found"
            /\ tasks[t].steps = <<"lookup", "classify">>
            /\ tasks[t].append = "none"
            /\ tasks[t].replies = <<>> /\ tasks[t].pending = ""
            /\ tasks[t].pc = "done"

\* C30 witness: a registered user's message gave a transaction without an
\* amount or without a category, and the handler has returned without a
\* reply and without an append.
C30_Witness ==
    \E t \in Tasks :
        /\ IncompleteTransaction(tasks[t]) /\ tasks[t].hadRow
        /\ tasks[t].pc = "done" /\ tasks[t].replies = <<>>
        /\ tasks[t].append = "none"

\* ------------------------------------------------ the classifier on its own
RequestTypes == {"transaction", "analysis", "other", "report", None}
Flags == {JBool(TRUE), JBool(FALSE), JNull}
Amounts == {JNull, JNum(5), JNum(0 - 5), JStr("12"), JStr("abc")}
CategoryValues ==
    {JNull, JStr("An uong & Do uong"), JStr(Fallback), JStr("Do choi"), JStr("")}
Queries == {JNull, JStr(""), JStr("thong ke thang nay")}

Responses ==
    {Response("object", {}, rt, inc, exp, am, cat, q) :
        rt \in RequestTypes, inc \in Flags, exp \in Flags, am \in Amounts,
        cat \in CategoryValues, q \in Queries}
    \cup {Response("object", {k}, "transaction", JBool(FALSE), JBool(TRUE),
                   JNum(5), JStr(Fallback), JNull) : k \in required_keys}
    \cup {Response(sh, {}, None, JNull, JNull, JNull, JNull, JNull) :
             sh \in Shapes \ {"object"}}

InitClassify ==
    /\ registry = <<>>
    /\ hist = <<NoCall, NoCall>>
    /\ ncalls = 0
    /\ response \in Responses
    /\ result = Absent
    /\ scanned = NoScan
    /\ StoreInit
    /\ BotInit

Classify ==
    /\ ncalls = 0
    /\ result' = analyze_expense_message(response)
    /\ ncalls' = 1
    /\ UNCHANGED <<registry, hist, response, scanned, storeVars, botVars>>

NextClassify == Classify

SpecClassify == InitClassify /\ [][NextClassify]_vars

Classified == ncalls = 1
FullTransaction ==
    /\ Classified /\ response.shape = "object" /\ response.missing = {}
    /\ response.request_type = "transaction"

NotOneOfTheTwelve(v) == ~(v.t = "str" /\ v.s \in Categories)

ParsedAsJson ==
    response.shape \in {"object", "array", "string", "keystring", "scalar", "null"}
KnownTypes == {"transaction", "analysis", "other"}

\* C11: for every response that parses as JSON, a result that is returned has
\* request_type "other" whenever a required key is missing, or the
\* request_type is "analysis" with an empty or null analysis_query, or the
\* request_type is none of transaction, analysis, other; every returned
\* result has its request_type among these three; and an object, an array
\* or a plain string always gets a result.
C11_Normalised ==
    (Classified /\ ParsedAsJson) =>
        /\ response.shape \in {"object", "array", "string"} => ~result.absent
        /\ ~result.absent =>
              /\ result.request_type \in KnownTypes
              /\ (response.shape # "object" \/ response.missing # {}) =>
                    result.request_type = "other"
              /\ (response.request_type = "analysis"
                    /\ ~Truthy(response.analysis_query)) =>
                    result.request_type = "other"
              /\ response.request_type \notin KnownTypes =>
                    result.request_type = "other"

\* C11 witness: a complete object with the unknown request_type "report"
\* came back as "other".
C11_Witness ==
    /\ Classified /\ response.shape = "object" /\ response.missing = {}
    /\ response.request_type = "report"
    /\ ~result.absent /\ result.request_type = "other"

\* C12 as stated: the result is absent only when the endpoint call failed or
\* its text does not parse as JSON.
C12_Original ==
    (Classified /\ result.absent) =>
        response.shape \in {"callerror", "empty", "notjson"}

\* The ways an object departs from the schema that the validation looks for.
Unschemed ==
    \/ response.shape \in {"array", "string"}
    \/ /\ response.shape = "object"
       /\ \/ response.missing # {}
          \/ response.request_type \notin KnownTypes
          \/ response.request_type = "analysis"
               /\ ~Truthy(response.analysis_query)
          \/ response.request_type = "transaction"
               /\ response.amount.t = "null"

StoreAmounts == {JNum(5)}
StoreCategories == {JStr("An uong & Do uong"), JStr(Fallback)}
StoreTypes == {"Thu", "Chi"}

InitStore ==
    /\ registry = <<>>
    /\ CallInit
    /\ StoreInit
    /\ BotInit

CallAppend(sid, amount, category, transaction_type, fail) ==
    LET r == append_expense_to_sheet(spreadsheets[sid], clock, amount,
                                     category, JStr(""), transaction_type, fail)
        row == RowData(MonthTitles[clock], amount, category, JStr(""),
                       transaction_type)
    IN  /\ ncalls < MaxAppends
        /\ ncalls' = ncalls + 1
        /\ spreadsheets' = [spreadsheets EXCEPT ![sid] = r.ss]
        /\ written' = IF r.ret = "true"
                      THEN [written EXCEPT ![sid] =
                               Append(@, [title |-> MonthTitles[clock],
                                          row |-> row])]
                      ELSE written
        /\ scanned' = NoScan
        /\ UNCHANGED <<registry, hist, response, result, clock, botVars>>

\* get_all_expenses_for_analysis(sid): the metadata read is answered with
\* meta, the range reads of the titles in failed are rejected.
CallScan(sid, meta, failed) ==
    LET r == get_all_expenses_for_analysis(spreadsheets[sid], meta, failed)
    IN  /\ ncalls < MaxAppends
        /\ ncalls' = ncalls + 1
        /\ scanned' = [sid |-> sid, meta |-> meta, failed |-> failed,
                       raise |-> r.raise, records |-> r.records]
        /\ UNCHANGED <<registry, hist, response, result, storeVars, botVars>>

NextStore ==
    \/ \E sid \in SheetIds, a \in StoreAmounts, c \in StoreCategories,
          t \in StoreTypes :
          \E f \in RequestFails(spreadsheets[sid], MonthTitles[clock]) :
             CallAppend(sid, a, c, t, f)
    \/ \E sid \in SheetIds, meta \in {"ok"} \cup FailKinds :
          \E failed \in SUBSET (IF meta = "ok"
                                THEN RangeReads(spreadsheets[sid]) ELSE {}) :
             CallScan(sid, meta, failed)
    \/ Tick

SpecStore == InitStore /\ [][NextStore]_vars

Count(seq, x) == Cardinality({i \in 1..Len(seq) : seq[i] = x})
MonthSheets(ss) == {i \in 1..Len(ss) : \E m \in 1..Len(MonthTitles) :
                                          ss[i].title = MonthTitles[m]}

\* C6 as stated: no two segments of a user sheet share a name, the appends of
\* one month are all in that month's segment and those of different months
\* in different segments, and every segment holds the header row exactly
\* once.
C6_Original ==
    \A sid \in SheetIds :
        LET ss == spreadsheets[sid]
        IN  /\ \A i, j \in 1..Len(ss) : ss[i].title = ss[j].title => i = j
            /\ \A k \in 1..Len(written[sid]) :
                  LET w == written[sid][k]
                  IN  /\ SheetIndex(ss, w.title) # 0
                      /\ w.row[1] = JStr(w.title)
            /\ \A i \in MonthSheets(ss) : Count(ss[i].rows, HEADER_ROW) = 1

C20_Original ==
    \A sid \in SheetIds :
        \A i \in MonthSheets(spreadsheets[sid]) :
            LET rows == spreadsheets[sid][i].rows
            IN  /\ Len(rows) >= 1
                /\ rows[1] = HEADER_ROW
                /\ \A k \in 2..Len(rows) : rows[k] # HEADER_ROW

\* The spreadsheet the last scan read: an append clears scanned, so it is the
\* present one.
ScannedSheets == spreadsheets[scanned.sid]

\* The sheets of ss other than those whose range read was rejected.
OtherSegments(ss, failed) ==
    LET Kept(sh) == sh.title \notin failed
    IN  SelectSeq(ss, Kept)

\* C22: a scan whose metadata read is rejected raises that error; otherwise
\* it does not raise, whichever range reads are rejected, and returns
\* exactly the records a scan without rejections returns on the spreadsheet
\* without the segments whose read was rejected.
C22_SegmentFailureSkipped ==
    scanned # NoScan =>
        IF scanned.meta # "ok"
        THEN scanned.raise = scanned.meta
        ELSE /\ scanned.raise = "ok"
             /\ scanned.records =
                   get_all_expenses_for_analysis(
                       OtherSegments(ScannedSheets, scanned.failed),
                       "ok", {}).records

\* C22 witness: both months have a segment with a data row, the read of the
\* first month was rejected and the scan returned the records of the second.
C22_Witness ==
    /\ scanned # NoScan /\ scanned.meta = "ok"
    /\ scanned.failed = {MonthTitles[1]}
    /\ \A m \in 1..Len(MonthTitles) :
          LET i == SheetIndex(ScannedSheets, MonthTitles[m])
          IN  i # 0 /\ Len(ScannedSheets[i].rows) >= 2
    /\ scanned.raise = "ok"
    /\ Len(scanned.records) >= 1
    /\ \A k \in 1..Len(scanned.records) :
          scanned.records[k].Date = JStr(MonthTitles[2])

\* The rows of a segment that are not the header.
DataRowsOf(rows) ==
    LET IsData(row) == row # HEADER_ROW
    IN  SelectSeq(rows, IsData)

RECURSIVE RecordPerDataRow(_, _)
RecordPerDataRow(ss, i) ==
    IF i > Len(ss) THEN <<>>
    ELSE LET data == DataRowsOf(ss[i].rows)
             here == IF monthly_sheet_pattern(ss[i].title)
                     THEN [k \in 1..Len(data) |-> ExpenseRecord(data[k])]
                     ELSE <<>>
         IN  here \o RecordPerDataRow(ss, i + 1)

\* C23 as stated: a scan in which no read is rejected returns one record for
\* each data row of the segments named YYYY-MM, in order, and none from other
\* sheets; the amount of a record is null when the cell is not a number.
C23_Original ==
    (scanned # NoScan /\ scanned.meta = "ok" /\ scanned.failed = {}) =>
        /\ scanned.raise = "ok"
        /\ scanned.records = RecordPerDataRow(ScannedSheets, 1)

\* ------------------------------------------------ registry calls in sequence
\* A single-threaded caller of the two registry functions on a master sheet
\* with arbitrary prior content.  hist holds the last two calls.

InitUpsert ==
    /\ registry \in TablesUpTo(MaxLen)
    /\ CallInit
    /\ StoreInit
    /\ BotInit

CallAdd(u, s, rd, wr) ==
    LET r == add_user_to_master_sheet(registry, u, s, rd, wr)
    IN  /\ ncalls < MaxCalls
        /\ registry' = r.table
        /\ hist' = <<hist[2],
                     [op |-> "add", u |-> u, s |-> s, rd |-> rd,
                      res |-> IF r.ret THEN "true" ELSE "false",
                      wrote |-> r.wrote, changed |-> r.table # registry]>>
        /\ ncalls' = ncalls + 1
        /\ UNCHANGED <<response, result, scanned, storeVars, botVars>>

CallGet(u, rd) ==
    /\ ncalls < MaxCalls
    /\ hist' = <<hist[2],
                 [op |-> "get", u |-> u, s |-> "", rd |-> rd,
                  res |-> IF rd = "ok" THEN get_user_sheet_id(registry, u)
                          ELSE "raise",
                  wrote |-> FALSE, changed |-> FALSE]>>
    /\ ncalls' = ncalls + 1
    /\ UNCHANGED <<registry, response, result, scanned, storeVars, botVars>>

NextUpsert ==
    \/ \E u \in Users, s \in SheetIds, rd \in Answers, wr \in Answers :
          CallAdd(u, s, rd, wr)
    \/ \E u \in Users, rd \in Answers : CallGet(u, rd)

SpecUpsert == InitUpsert /\ [][NextUpsert]_vars

\* C2: after add_user_to_master_sheet(u, s) has reported success, an
\* immediately following get_user_sheet_id(u) that returns, returns s (it
\* never returns absent or another sheet id; a rejected read makes it raise).
C2_ReadAfterWrite ==
    (/\ hist[1].op = "add" /\ hist[1].res = "true"
     /\ hist[2].op = "get" /\ hist[2].u = hist[1].u)
    => hist[2].res \in {hist[1].s, "raise"}

\* C2 witness: a successful upsert that changed a table already holding a row
\* of the user, followed by a lookup that returned the new sheet id.
C2_Witness ==
    /\ hist[1].op = "add" /\ hist[1].res = "true" /\ hist[1].changed
    /\ hist[2].op = "get" /\ hist[2].u = hist[1].u
    /\ hist[2].res = hist[1].s
    /\ RowsOf(registry, hist[1].u) >= 2

SameArgsTwice ==
    /\ hist[1].op = "add" /\ hist[2].op = "add"
    /\ hist[1].u = hist[2].u /\ hist[1].s = hist[2].s

\* C3 as stated: of two calls in sequence with the same (u, s), the second
\* reports success, performs no write and leaves the table as it was.
C3_Original ==
    SameArgsTwice =>
        hist[2].res = "true" /\ ~hist[2].wrote /\ ~hist[2].changed

\* C3 amended: when the first of two calls in sequence with the same (u, s)
\* reported success, the second performs no write and leaves the table
\* exactly as it was (no duplicate row); it reports success unless the
\* backend rejects its read, and then it reports failure.
C3_Idempotent ==
    (SameArgsTwice /\ hist[1].res = "true") =>
        /\ ~hist[2].wrote /\ ~hist[2].changed
        /\ hist[2].res = (IF hist[2].rd = "ok" THEN "true" ELSE "false")

\* C3 witness: a first call that wrote, then the same call again, successful.
C3_Witness ==
    /\ SameArgsTwice /\ hist[1].res = "true" /\ hist[1].wrote
    /\ hist[2].res = "true"

LastLookup == hist[2]

\* C21 as stated: a lookup whose read is rejected raises; otherwise it returns
\* the sheet id of the first row whose user_id is u, and absent when no row
\* has user_id u.
C21_Original ==
    LastLookup.op = "get" =>
        IF LastLookup.rd # "ok" THEN LastLookup.res = "raise"
        ELSE LET i == FindUserRow(registry, LastLookup.u)
             IN  LastLookup.res = (IF i # 0 /\ Len(registry[i]) >= 2
                                   THEN registry[i][2] ELSE None)

\* C21 amended: a lookup whose read is rejected raises; otherwise it returns
\* the sheet id of the first row that holds a sheet id and whose user_id is
\* u (rows of u without a sheet id are passed over), and absent when there is
\* no such row.
C21_FirstFullRow ==
    LastLookup.op = "get" =>
        IF LastLookup.rd # "ok" THEN LastLookup.res = "raise"
        ELSE \/ /\ LastLookup.res = None
                /\ \A i \in 1..Len(registry) :
                      ~FullRowOf(registry, i, LastLookup.u)
             \/ \E i \in 1..Len(registry) :
                   /\ FullRowOf(registry, i, LastLookup.u)
                   /\ \A j \in 1..(i - 1) :
                         ~FullRowOf(registry, j, LastLookup.u)
                   /\ LastLookup.res = registry[i][2]

\* C21 witness: the table holds a row of u without a sheet id and, after it,
\* a row of u with one, and the lookup returned that sheet id.
C21_Witness ==
    /\ LastLookup.op = "get" /\ LastLookup.rd = "ok"
    /\ Len(registry) = 2
    /\ registry[1] = <<LastLookup.u>>
    /\ FullRowOf(registry, 2, LastLookup.u)
    /\ LastLookup.res = registry[2][2]

\* Row i of the table is a row of user u (column A holds u).
RowOfUser(values, i, u) == Len(values[i]) >= 1 /\ values[i][1] = u

====
